---------------------------- MODULE Spec2Model ----------------------------
(***************************************************************************)
(* Model of the web resume categorizer (src/app.py).                       *)
(*                                                                         *)
(* Texts and file names are TLA+ strings, handled character by character   *)
(* with Len, SubSeq and \o, so that str.lower, str.count, str.strip,      *)
(* Path.suffix, secure_filename and the regular expressions are computed   *)
(* as the Python code computes them.                                       *)
(*                                                                         *)
(*   SpecScore : the two scorers applied to texts drawn from a bounded set *)
(*   Spec      : the Flask application (upload, results, download)         *)
(***************************************************************************)
EXTENDS Integers, Sequences, FiniteSets, TLC

VARIABLES
  text,              \* SpecScore: the text handed to the scorers
  domain,            \* SpecScore: result of categorize_domain, or NoVal
  experience,        \* SpecScore: result of categorize_experience, or NoVal
  pc,                \* "loop" while upload_files runs its loop, else "idle"
  PDF_AVAILABLE,     \* import PyPDF2 succeeded
  DOCX_AVAILABLE,    \* import docx succeeded
  files,             \* request.files.getlist('files') of the running upload
  examined,          \* number of files the loop of upload_files has examined
  session_id,        \* local session_id of the running upload
  categorized_files, \* local list of records of the running upload
  stats,             \* local stats[domain][experience]
  processed_count,   \* local counter
  failed_count,      \* local counter
  trace,             \* per examined file: what the loop body did with it
  session,           \* the cookie session
  upload_folder,     \* /tmp/uploads: path -> uploaded file
  processed_folder,  \* /tmp/processed: zip path -> archive
  next_uuid,         \* uuid4 values handed out so far
  received,          \* files received by the uploads that got a session id
  flashed,           \* message flashed by the last request ("" if none)
  response           \* response of the last request

vars == <<text, domain, experience, pc, PDF_AVAILABLE, DOCX_AVAILABLE, files,
          examined, session_id, categorized_files, stats, processed_count,
          failed_count, trace, session, upload_folder, processed_folder,
          next_uuid, received, flashed, response>>

NoVal == "<none>"

-----------------------------------------------------------------------------
(* Bounds of the model *)

\* a text is the concatenation of at most MaxFrags fragments
MaxFrags == 2
\* an upload request carries at most MaxFiles files
MaxFiles == 2
\* the upload requests of one behaviour that reach the loop carry at most
\* MaxTotalFiles files together
MaxTotalFiles == 2

-----------------------------------------------------------------------------
(* Strings *)

Max(a, b) == IF a >= b THEN a ELSE b

Ch(t, i) == SubSeq(t, i, i)

\* t[i:] of Python, i counted from 1
Tail_(t, i) == IF i > Len(t) THEN "" ELSE SubSeq(t, i, Len(t))

UpperToLower ==
  ( "A" :> "a" @@ "B" :> "b" @@ "C" :> "c" @@ "D" :> "d" @@ "E" :> "e" @@
    "F" :> "f" @@ "G" :> "g" @@ "H" :> "h" @@ "I" :> "i" @@ "J" :> "j" @@
    "K" :> "k" @@ "L" :> "l" @@ "M" :> "m" @@ "N" :> "n" @@ "O" :> "o" @@
    "P" :> "p" @@ "Q" :> "q" @@ "R" :> "r" @@ "S" :> "s" @@ "T" :> "t" @@
    "U" :> "u" @@ "V" :> "v" @@ "W" :> "w" @@ "X" :> "x" @@ "Y" :> "y" @@
    "Z" :> "z" )

LowerCh(c) == IF c \in DOMAIN UpperToLower THEN UpperToLower[c] ELSE c

RECURSIVE LowerFrom(_, _)
LowerFrom(t, i) ==
  IF i > Len(t) THEN "" ELSE LowerCh(Ch(t, i)) \o LowerFrom(t, i + 1)

\* str.lower()
Lower(t) == LowerFrom(t, 1)

Whitespace == {" ", "\n", "\t", "\r"}

Digits ==
  ( "0" :> 0 @@ "1" :> 1 @@ "2" :> 2 @@ "3" :> 3 @@ "4" :> 4 @@
    "5" :> 5 @@ "6" :> 6 @@ "7" :> 7 @@ "8" :> 8 @@ "9" :> 9 )

\* t.startswith(lit, i - 1)
StartsAt(t, i, lit) ==
  /\ i + Len(lit) - 1 <= Len(t)
  /\ SubSeq(t, i, i + Len(lit) - 1) = lit

\* not t.strip()
IsBlank(t) == \A i \in 1..Len(t) : Ch(t, i) \in Whitespace

RECURSIVE CountFrom(_, _, _)
CountFrom(t, k, i) ==
  IF i + Len(k) - 1 > Len(t) THEN 0
  ELSE IF StartsAt(t, i, k) THEN 1 + CountFrom(t, k, i + Len(k))
  ELSE CountFrom(t, k, i + 1)

\* str.count(k): the occurrences of k found scanning t left to right, each
\* search resuming after the end of the previous occurrence
Count(t, k) == CountFrom(t, k, 1)

-----------------------------------------------------------------------------
(* ResumeCategorizer: the domain scorer *)

\* the keys of self.domain_keywords in the order the dict literal declares them
\* (the order in which .items() and .keys() iterate)
DomainOrder ==
  << "Software_Engineering", "Data_Science", "VLSI_Electronics", "DevOps_Cloud",
     "Mechanical_Engineering", "Civil_Engineering" >>

domain_keywords ==
  ( "Software_Engineering" :> <<
      "python", "java", "javascript", "react", "angular", "vue", "node.js", "django",
      "flask", "spring boot", "full stack", "frontend", "backend", "web developer",
      "software engineer", "developer", "programming", "coding",
      "software development", "html", "css", "sql", "database", "api", "rest",
      "microservices", "agile", "git", "github", "mvc", "orm", "json", "xml",
      "mobile app", "ios", "android"
    >>
  @@ "Data_Science" :> <<
      "data scientist", "machine learning", "deep learning", "tensorflow", "pytorch",
      "pandas", "numpy", "matplotlib", "sql", "tableau", "power bi", "statistics",
      "data analyst", "analytics", "big data", "hadoop", "spark", "r programming",
      "data mining", "predictive modeling", "data visualization", "scikit-learn",
      "neural network", "artificial intelligence", "nlp", "computer vision"
    >>
  @@ "VLSI_Electronics" :> <<
      "vlsi", "verilog", "vhdl", "fpga", "asic", "system verilog", "cadence",
      "synopsys", "xilinx", "altera", "rtl design", "verification", "physical design",
      "analog design", "digital design", "semiconductor", "chip design",
      "circuit design", "embedded", "microcontroller", "arm", "risc", "dft",
      "timing analysis", "layout"
    >>
  @@ "DevOps_Cloud" :> <<
      "devops", "aws", "azure", "gcp", "docker", "kubernetes", "jenkins", "terraform",
      "ansible", "linux", "ci/cd", "cloud engineer", "infrastructure", "deployment",
      "monitoring", "automation", "scripting", "cloud computing", "containerization",
      "puppet", "chef", "nagios", "prometheus", "grafana", "elk stack"
    >>
  @@ "Mechanical_Engineering" :> <<
      "mechanical engineer", "cad", "solidworks", "autocad", "catia", "ansys",
      "manufacturing", "design engineer", "product design", "mechanical design",
      "thermal analysis", "fea", "prototype", "quality control", "lean manufacturing",
      "pro/engineer", "inventor", "nx", "creo", "matlab", "simulink"
    >>
  @@ "Civil_Engineering" :> <<
      "civil engineer", "construction", "structural design", "project management",
      "autocad", "revit", "surveying", "site engineer", "concrete", "steel design",
      "infrastructure", "transportation", "water resources", "geotechnical", "etabs",
      "sap2000", "staad pro", "primavera", "ms project"
    >> )

RECURSIVE SumCounts(_, _, _)
SumCounts(text_lower, keywords, j) ==
  IF j > Len(keywords) THEN 0
  ELSE Count(text_lower, Lower(keywords[j])) + SumCounts(text_lower, keywords, j + 1)

\* the inner loop of categorize_domain: score of one domain
DomainScore(text_lower, d) == SumCounts(text_lower, domain_keywords[d], 1)

\* ScoreDomains with the test "if score > 0" weakened to "if score >= 0"
RECURSIVE ScoreDomainsKeepZero(_, _)
ScoreDomainsKeepZero(text_lower, j) ==
  IF j > Len(DomainOrder) THEN <<>>
  ELSE <<[domain |-> DomainOrder[j],
          score |-> DomainScore(text_lower, DomainOrder[j])]>>
       \o ScoreDomainsKeepZero(text_lower, j + 1)

\* the outer loop of categorize_domain from domain j on: domain_scores as the
\* list of its items, in insertion order (a domain is inserted if it scored > 0)
RECURSIVE ScoreDomains(_, _)
ScoreDomains(text_lower, j) ==
  IF j > Len(DomainOrder) THEN <<>>
  ELSE LET score == DomainScore(text_lower, DomainOrder[j])
       IN (IF score > 0 THEN <<[domain |-> DomainOrder[j], score |-> score]>>
           ELSE <<>>)
          \o ScoreDomains(text_lower, j + 1)

\* MaxByKey replacing the item kept by one that is merely as large
RECURSIVE MaxByKeyLastWins(_, _, _)
MaxByKeyLastWins(items, j, best) ==
  IF j > Len(items) THEN best
  ELSE IF items[j].score >= best.score THEN MaxByKeyLastWins(items, j + 1, items[j])
  ELSE MaxByKeyLastWins(items, j + 1, best)

\* max(domain_scores.keys(), key = lambda x: domain_scores[x]): the builtin
\* keeps the first item seen and replaces it only by a strictly larger one
RECURSIVE MaxByKey(_, _, _)
MaxByKey(items, j, best) ==
  IF j > Len(items) THEN best
  ELSE IF items[j].score > best.score THEN MaxByKey(items, j + 1, items[j])
  ELSE MaxByKey(items, j + 1, best)

categorize_domain(text_content) ==
  LET domain_scores == ScoreDomains(Lower(text_content), 1)
  IN IF domain_scores = <<>> THEN "Other"
     ELSE MaxByKey(domain_scores, 2, domain_scores[1]).domain

-----------------------------------------------------------------------------
(* ResumeCategorizer: the experience scorer *)

\* A match position is an index into the text (from 1); NoMatch is no position.
NoMatch == 0

Alt(a, b) == IF a # NoMatch THEN a ELSE b

\* a literal at position p
Lit(t, p, lit) ==
  IF p # NoMatch /\ StartsAt(t, p, lit) THEN p + Len(lit) ELSE NoMatch

RECURSIVE SpacesEnd(_, _)
SpacesEnd(t, p) ==
  IF p <= Len(t) /\ Ch(t, p) \in Whitespace THEN SpacesEnd(t, p + 1) ELSE p

\* \s* at position p. It is greedy and what follows it in every pattern is a
\* letter, a colon or a digit, so giving a space back never helps a match.
Spaces(t, p) == IF p = NoMatch THEN NoMatch ELSE SpacesEnd(t, p)

RECURSIVE DigitsEnd(_, _)
DigitsEnd(t, p) ==
  IF p <= Len(t) /\ Ch(t, p) \in DOMAIN Digits THEN DigitsEnd(t, p + 1) ELSE p

\* (\d+) at position p. It is greedy and what follows it is \+?\s* and the
\* letter y, so giving a digit back never helps a match.
Number(t, p) ==
  IF p = NoMatch \/ DigitsEnd(t, p) = p THEN NoMatch ELSE DigitsEnd(t, p)

RECURSIVE ToInt(_, _, _, _)
ToInt(t, p, e, acc) ==
  IF p >= e THEN acc ELSE ToInt(t, p + 1, e, 10 * acc + Digits[Ch(t, p)])

\* int(match) for the digits that start at position p
IntAt(t, p) == ToInt(t, p, DigitsEnd(t, p), 0)

\* (\d+)\+?\s* followed by the literal word: the position after the word
NumberThen(t, p, word) ==
  LET n == Number(t, p)
  IN Alt(Lit(t, Spaces(t, Lit(t, n, "+")), word), Lit(t, Spaces(t, n), word))

\* (?:experience|exp) at position p
ExperienceOrExp(t, p) == Alt(Lit(t, p, "experience"), Lit(t, p, "exp"))

\* OfExperience with the whole group optional
OfExperienceOptional(t, p) ==
  LET w == Spaces(t, p)
  IN Alt(Alt(ExperienceOrExp(t, Spaces(t, Lit(t, w, "of"))), ExperienceOrExp(t, w)), p)

\* \s*(?:of\s*)?(?:experience|exp) at position p
OfExperience(t, p) ==
  LET w == Spaces(t, p)
  IN Alt(ExperienceOrExp(t, Spaces(t, Lit(t, w, "of"))), ExperienceOrExp(t, w))

\* self.experience_patterns, by index: the position after the match of pattern
\* k that starts at position p, or NoMatch. An optional item is tried first
\* present and then absent, as the backtracking matcher tries it.
MatchEnd(k, t, p) ==
  CASE k = 1 ->  \* (\d+)\+?\s*years?\s*(?:of\s*)?(?:experience|exp)
         LET y == NumberThen(t, p, "year")
         IN Alt(OfExperience(t, Lit(t, y, "s")), OfExperience(t, y))
    [] k = 2 ->  \* (\d+)\+?\s*yrs?
         LET y == NumberThen(t, p, "yr")
         IN Alt(Lit(t, y, "s"), y)
    [] k = 3 ->  \* (\d+)\+?\s*year\s*exp
         Lit(t, Spaces(t, NumberThen(t, p, "year")), "exp")
    [] k = 4 ->  \* experience\s*:?\s*(\d+)\+?\s*years?
         LET w == Spaces(t, Lit(t, p, "experience"))
             g == Alt(Spaces(t, Lit(t, w, ":")), w)
             y == NumberThen(t, g, "year")
         IN Alt(Lit(t, y, "s"), y)
    [] k = 5 ->  \* (\d+)\+?\s*years?\s*in
         LET y == NumberThen(t, p, "year")
         IN Alt(Lit(t, Spaces(t, Lit(t, y, "s")), "in"), Lit(t, Spaces(t, y), "in"))
    [] k = 6 ->  \* (\d+)\+?\s*years?\s*working
         LET y == NumberThen(t, p, "year")
         IN Alt(Lit(t, Spaces(t, Lit(t, y, "s")), "working"),
                Lit(t, Spaces(t, y), "working"))

\* where the group (\d+) of pattern k starts in a match that starts at p
GroupStart(k, t, p) ==
  IF k = 4
  THEN LET w == Spaces(t, Lit(t, p, "experience"))
       IN Alt(Spaces(t, Lit(t, w, ":")), w)
  ELSE p

experience_patterns == << 1, 2, 3, 4, 5, 6 >>

\* re.findall(pattern k, t): the groups of the matches found scanning from
\* the left, each search resuming where the previous match ended
RECURSIVE FindAllFrom(_, _, _)
FindAllFrom(k, t, p) ==
  IF p > Len(t) THEN <<>>
  ELSE LET e == MatchEnd(k, t, p)
       IN IF e # NoMatch
          THEN <<IntAt(t, GroupStart(k, t, p))>> \o FindAllFrom(k, t, e)
          ELSE FindAllFrom(k, t, p + 1)

findall(k, t) == FindAllFrom(k, t, 1)

\* the matches of every pattern, in the order the two loops visit them
RECURSIVE AllMatches(_, _)
AllMatches(text_lower, j) ==
  IF j > Len(experience_patterns) THEN <<>>
  ELSE findall(experience_patterns[j], text_lower) \o AllMatches(text_lower, j + 1)

MinYears == 0
MaxYears == 50

\* FoldYears without the range test
RECURSIVE FoldYearsNoRange(_, _, _)
FoldYearsNoRange(matches, j, max_years) ==
  IF j > Len(matches) THEN max_years
  ELSE FoldYearsNoRange(matches, j + 1, Max(max_years, matches[j]))

\* body of the inner loop: if 0 <= years <= 50: max_years = max(max_years, years)
RECURSIVE FoldYears(_, _, _)
FoldYears(matches, j, max_years) ==
  IF j > Len(matches) THEN max_years
  ELSE IF MinYears <= matches[j] /\ matches[j] <= MaxYears
       THEN FoldYears(matches, j + 1, Max(max_years, matches[j]))
       ELSE FoldYears(matches, j + 1, max_years)

\* Tier with a label that api_status does not list
TierMislabelled(max_years) ==
  IF max_years = 0 THEN "Fresher_0-1_year"
  ELSE IF max_years <= 3 THEN "Junior_1-3_years"
  ELSE IF max_years <= 6 THEN "Mid_Level_3-6_years"
  ELSE "Senior_6plus_years"

JuniorMax == 3
MidMax == 6

\* the if/elif chain at the end of categorize_experience
Tier(max_years) ==
  IF max_years = 0 THEN "Fresher_0-1_years"
  ELSE IF max_years <= JuniorMax THEN "Junior_1-3_years"
  ELSE IF max_years <= MidMax THEN "Mid_Level_3-6_years"
  ELSE "Senior_6plus_years"

categorize_experience(text_content) ==
  Tier(FoldYears(AllMatches(Lower(text_content), 1), 1, 0))

\* api_status: the experience levels the service announces
experience_levels ==
  { "Fresher_0-1_years", "Junior_1-3_years", "Mid_Level_3-6_years",
    "Senior_6plus_years" }

-----------------------------------------------------------------------------
(* File names, paths and text extraction *)

UPLOAD_FOLDER == "/tmp/uploads"
PROCESSED_FOLDER == "/tmp/processed"
ALLOWED_EXTENSIONS == { ".pdf", ".docx", ".doc", ".txt" }

\* the value an expression of the try block has when it raises
Raised == "<exception>"

\* a dict: a function on the keys it holds
EmptyDict == [k \in {} |-> k]
Put(dict, key, value) ==
  [k \in DOMAIN dict \cup {key} |-> IF k = key THEN value ELSE dict[k]]
Remove(dict, keys) == [k \in DOMAIN dict \ keys |-> dict[k]]

\* t.rfind(c) + 1: the last position of character c in t, 0 if there is none
RECURSIVE RFind(_, _, _)
RFind(t, c, i) ==
  IF i = 0 THEN 0 ELSE IF Ch(t, i) = c THEN i ELSE RFind(t, c, i - 1)

\* Path(path).name: what follows the last separator
PathName(path) == Tail_(path, RFind(path, "/", Len(path)) + 1)

\* Path(path).suffix: from the last dot of the name on, unless that dot is
\* the first or the last character of the name
PathSuffix(path) ==
  LET name == PathName(path)
      i == RFind(name, ".", Len(name))
  IN IF 1 < i /\ i < Len(name) THEN Tail_(name, i) ELSE ""

\* Path(path).stem
PathStem(path) ==
  LET name == PathName(path)
      i == RFind(name, ".", Len(name))
  IN IF 1 < i /\ i < Len(name) THEN SubSeq(name, 1, i - 1) ELSE name

\* allowed_file with the extension test dropped
allowed_file_any(filename) == TRUE

allowed_file(filename) == Lower(PathSuffix(filename)) \in ALLOWED_EXTENSIONS

\* "_".join(filename.replace("/", " ").split()): state is "start" before the
\* first word, "word" inside a word and "gap" after a word
RECURSIVE JoinWords(_, _, _)
JoinWords(t, i, state) ==
  IF i > Len(t) THEN ""
  ELSE IF Ch(t, i) \in Whitespace \cup {"/"}
       THEN JoinWords(t, i + 1, IF state = "start" THEN "start" ELSE "gap")
       ELSE (IF state = "gap" THEN "_" ELSE "") \o Ch(t, i)
            \o JoinWords(t, i + 1, "word")

SafeChars ==
  DOMAIN UpperToLower \cup { UpperToLower[c] : c \in DOMAIN UpperToLower }
    \cup DOMAIN Digits \cup { "_", ".", "-" }

\* re.sub(r"[^A-Za-z0-9_.-]", "", t)
RECURSIVE KeepSafe(_, _)
KeepSafe(t, i) ==
  IF i > Len(t) THEN ""
  ELSE (IF Ch(t, i) \in SafeChars THEN Ch(t, i) ELSE "") \o KeepSafe(t, i + 1)

\* t.strip("._")
RECURSIVE StripDots(_)
StripDots(t) ==
  IF t = "" THEN ""
  ELSE IF Ch(t, 1) \in {".", "_"} THEN StripDots(Tail_(t, 2))
  ELSE IF Ch(t, Len(t)) \in {".", "_"} THEN StripDots(SubSeq(t, 1, Len(t) - 1))
  ELSE t

\* werkzeug.utils.secure_filename on an ASCII name
secure_filename(filename) == StripDots(KeepSafe(JoinWords(filename, 1, "start"), 1))

\* An uploaded file is [filename, content, readable]: the name the client
\* sent, the text the document holds (one page, one paragraph) and whether
\* the parsing library can read the document.

\* extract_text_from_docx letting the library's exception escape
extract_text_from_docx_raising(file) ==
  IF ~DOCX_AVAILABLE THEN ""
  ELSE IF ~file.readable THEN Raised
  ELSE file.content \o "\n"

extract_text_from_pdf(file) ==
  IF ~PDF_AVAILABLE THEN ""
  ELSE IF ~file.readable THEN ""
  ELSE file.content \o "\n"

extract_text_from_docx(file) ==
  IF ~DOCX_AVAILABLE THEN ""
  ELSE IF ~file.readable THEN ""
  ELSE file.content \o "\n"

\* extract_text_from_file(file_path), file being what was saved at file_path
extract_text_from_file(file_path, file) ==
  LET file_ext == Lower(PathSuffix(file_path))
  IN IF file_ext = ".pdf" THEN extract_text_from_pdf(file)
     ELSE IF file_ext \in {".docx", ".doc"} THEN extract_text_from_docx(file)
     ELSE IF file_ext = ".txt"
          THEN (IF file.readable THEN file.content ELSE "")
     ELSE PathStem(file_path)

-----------------------------------------------------------------------------
(* The scorers on their own: SpecScore *)

\* pieces of resume text; a text is a concatenation of at most MaxFrags of them
Fragments ==
  { "sql", "SQL ", "infrastructure ", "nx ", "alteraltera ", "Python developer ",
    "7+ years", " experience", "75 years exp ", "3 yrs ", "Experience: 6 years ",
    "4 years\nin ", "5" }

RECURSIVE Concat(_, _)
Concat(fs, j) == IF j > Len(fs) THEN "" ELSE fs[j] \o Concat(fs, j + 1)

Texts ==
  { Concat(fs, 1) : fs \in UNION { [1..n -> Fragments] : n \in 0..MaxFrags } }

\* the state of the application before any request
AppInit ==
  /\ pc = "idle"
  /\ files = <<>>
  /\ examined = 0
  /\ session_id = NoVal
  /\ categorized_files = <<>>
  /\ stats = EmptyDict
  /\ processed_count = 0
  /\ failed_count = 0
  /\ trace = <<>>
  /\ session = EmptyDict
  /\ upload_folder = EmptyDict
  /\ processed_folder = EmptyDict
  /\ next_uuid = 0
  /\ received = 0
  /\ flashed = ""
  /\ response = [kind |-> "none", location |-> "", body |-> EmptyDict]

appVars ==
  <<pc, PDF_AVAILABLE, DOCX_AVAILABLE, files, examined, session_id,
    categorized_files, stats, processed_count, failed_count, trace, session,
    upload_folder, processed_folder, next_uuid, received, flashed, response>>

InitScore ==
  /\ text \in Texts
  /\ domain = NoVal
  /\ experience = NoVal
  /\ PDF_AVAILABLE = TRUE
  /\ DOCX_AVAILABLE = TRUE
  /\ AppInit

ScoreDomain ==
  /\ domain = NoVal
  /\ domain' = categorize_domain(text)
  /\ UNCHANGED <<text, experience, appVars>>

ScoreExperience ==
  /\ experience = NoVal
  /\ experience' = categorize_experience(text)
  /\ UNCHANGED <<text, domain, appVars>>

NextScore == ScoreDomain \/ ScoreExperience

SpecScore == InitScore /\ [][NextScore]_vars

-----------------------------------------------------------------------------
(* Claims about the scorers, checked under SpecScore *)

DomainSet == { DomainOrder[j] : j \in 1..Len(DomainOrder) }

\* the positions at which keyword k occurs in t, both already in lower case
OccurrencesOf(t, k) ==
  { i \in 1..(Len(t) - Len(k) + 1) : SubSeq(t, i, i + Len(k) - 1) = k }

\* the occurrence count of k in t: the largest number of occurrences of k in t
\* no two of which share a character
OccurrenceCount(t, k) ==
  LET occ == OccurrencesOf(t, k)
      apart(S) == \A i \in S : \A j \in S : i < j => j - i >= Len(k)
  IN IF occ = {} THEN 0
     ELSE CHOOSE n \in 1..Cardinality(occ) :
            /\ \E S \in SUBSET occ : Cardinality(S) = n /\ apart(S)
            /\ \A S \in SUBSET occ : apart(S) => Cardinality(S) <= n

RECURSIVE SumOccurrences(_, _, _)
SumOccurrences(t, keywords, j) ==
  IF j > Len(keywords) THEN 0
  ELSE OccurrenceCount(t, Lower(keywords[j])) + SumOccurrences(t, keywords, j + 1)

RECURSIVE HitsFrom(_, _)
HitsFrom(t, j) ==
  IF j > Len(DomainOrder) THEN <<>>
  ELSE <<SumOccurrences(t, domain_keywords[DomainOrder[j]], 1)>> \o HitsFrom(t, j + 1)

\* the case-insensitive keyword-hit score of text t for every domain, as a
\* sequence indexed like DomainOrder
KeywordHits(t) == HitsFrom(Lower(t), 1)

DomainIndex(d) == CHOOSE j \in 1..Len(DomainOrder) : DomainOrder[j] = d

MaxHits(hits) == CHOOSE m \in { hits[j] : j \in 1..Len(hits) } :
                   \A j \in 1..Len(hits) : hits[j] <= m

\* C1: categorize_domain returns a domain whose score (the sum over its
\* keywords of the case-insensitive occurrence count in the text) is the
\* maximum over all domains, and returns 'Other' exactly when every domain
\* scores 0.
C1_HighestScore ==
  domain # NoVal =>
    LET hits == KeywordHits(text)
    IN /\ (domain = "Other") <=> (\A j \in 1..Len(hits) : hits[j] = 0)
       /\ domain # "Other" =>
            domain \in DomainSet /\ hits[DomainIndex(domain)] = MaxHits(hits)

\* C1 witness: a text scored in which two domains have different positive
\* scores and the higher one was returned
C1_Witness ==
  /\ domain \in DomainSet
  /\ LET hits == KeywordHits(text)
     IN \E j \in 1..Len(hits) : 0 < hits[j] /\ hits[j] < hits[DomainIndex(domain)]

\* C2: when several domains share the maximum positive score, the one
\* declared first in the keyword table is returned.
C2_FirstDeclaredWins ==
  domain \in DomainSet =>
    LET hits == KeywordHits(text)
        first == CHOOSE j \in 1..Len(hits) :
                   /\ hits[j] = MaxHits(hits)
                   /\ \A i \in 1..(j - 1) : hits[i] # MaxHits(hits)
    IN domain = DomainOrder[first]

\* C2 witness: a text scored in which two domains tie at the maximum
C2_Witness ==
  /\ domain \in DomainSet
  /\ LET hits == KeywordHits(text)
     IN \E j \in 1..Len(hits) :
          DomainOrder[j] # domain /\ hits[j] = MaxHits(hits)

\* the integers the experience patterns match in the lowercased text
MatchedYears(t) ==
  LET ms == AllMatches(Lower(t), 1) IN { ms[j] : j \in 1..Len(ms) }

\* C3: the tier is decided by the largest matched integer within [0, 50]
\* (0 if there is none): 0 Fresher, 1..3 Junior, 4..6 Mid-level, above 6
\* Senior; a match outside the range has no influence.
C3_TierOfMaxValidYears ==
  experience # NoVal =>
    LET valid == { y \in MatchedYears(text) : 0 <= y /\ y <= 50 }
        m == IF valid = {} THEN 0
             ELSE CHOOSE y \in valid : \A z \in valid : z <= y
    IN /\ m = 0 => experience = "Fresher_0-1_years"
       /\ m \in 1..3 => experience = "Junior_1-3_years"
       /\ m \in 4..6 => experience = "Mid_Level_3-6_years"
       /\ m > 6 => experience = "Senior_6plus_years"

\* C3 witness: a text scored that holds a match above 50 and a valid match
C3_Witness ==
  /\ experience # NoVal
  /\ \E y \in MatchedYears(text) : y > 50
  /\ \E y \in MatchedYears(text) : 1 <= y /\ y <= 50

RECURSIVE HasDigit(_, _)
HasDigit(t, i) ==
  IF i > Len(t) THEN FALSE
  ELSE Ch(t, i) \in DOMAIN Digits \/ HasDigit(t, i + 1)

\* the only number of t is the 7 of a final "7+ years", which no word follows
EndsWithBareSevenYears(t) ==
  /\ Len(t) >= Len("7+ years")
  /\ StartsAt(t, Len(t) - Len("7+ years") + 1, "7+ years")
  /\ ~HasDigit(SubSeq(t, 1, Len(t) - Len("7+ years")), 1)

\* C4 as claimed: a text whose only years mention is "7+ years" is Senior.
C4_BareYearsIsSenior ==
  (experience # NoVal /\ text = "7+ years") => experience = "Senior_6plus_years"

\* C4 as amended: "7+ years" with no word after it and no "experience" before
\* it is matched by no pattern, so the text is Fresher; it is Senior when the
\* word experience follows the phrase.
C4_BareYearsIsFresher ==
  experience # NoVal =>
    /\ (EndsWithBareSevenYears(text) /\ OccurrencesOf(Lower(text), "experience") = {})
         => experience = "Fresher_0-1_years"
    /\ text = "7+ years experience" => experience = "Senior_6plus_years"

\* C4 witness: the text "7+ years" has been scored
C4_Witness == text = "7+ years" /\ experience = "Fresher_0-1_years"

-----------------------------------------------------------------------------
(* The Flask application: Spec *)

\* the files a client may upload
FileChoices ==
  { [filename |-> "cv.txt", content |-> "Python developer 7+ years experience",
     readable |-> TRUE],
    [filename |-> "cv.txt", content |-> "infrastructure 75 years exp 3 yrs",
     readable |-> TRUE],
    [filename |-> "sql 3 yrs.pdf", content |-> "", readable |-> TRUE],
    [filename |-> "scan.doc", content |-> "5 yrs", readable |-> FALSE],
    [filename |-> "virus.exe", content |-> "aws", readable |-> TRUE],
    [filename |-> "", content |-> "", readable |-> TRUE] }

\* the upload requests: without the form field 'files', or with a list of files
Requests ==
  { [has_files |-> FALSE, list |-> <<>>] }
    \cup { [has_files |-> TRUE, list |-> l] :
             l \in UNION { [1..n -> FileChoices] : n \in 1..MaxFiles } }

Redirect(location) == [kind |-> "redirect", location |-> location, body |-> EmptyDict]

\* str(uuid.uuid4())[:8] for the n-th value drawn
Uuid(n) == "id" \o ToString(n)

Init ==
  /\ text = ""
  /\ domain = NoVal
  /\ experience = NoVal
  /\ PDF_AVAILABLE \in BOOLEAN
  /\ DOCX_AVAILABLE \in BOOLEAN
  /\ AppInit

\* the locals of upload_files once the request is over
ResetLocals ==
  /\ files' = <<>>
  /\ examined' = 0
  /\ session_id' = NoVal
  /\ categorized_files' = <<>>
  /\ stats' = EmptyDict
  /\ processed_count' = 0
  /\ failed_count' = 0
  /\ trace' = <<>>

scoreVars == <<text, domain, experience, PDF_AVAILABLE, DOCX_AVAILABLE>>
localVars == <<files, examined, session_id, categorized_files, stats,
               processed_count, failed_count, trace>>
diskVars == <<upload_folder, processed_folder>>

\* upload_files, the two early returns
UploadNoFiles ==
  /\ pc = "idle"
  /\ \E req \in Requests :
       \/ ~req.has_files
       \/ req.list = <<>>
       \/ \A i \in 1..Len(req.list) : req.list[i].filename = ""
  /\ flashed' = "No files selected"
  /\ response' = Redirect("/")
  /\ UNCHANGED <<pc, scoreVars, localVars, session, diskVars, next_uuid, received>>

\* upload_files up to the loop: a new session id, empty results
UploadStart ==
  /\ pc = "idle"
  /\ \E req \in Requests :
       /\ received + Len(req.list) <= MaxTotalFiles
       /\ received' = received + Len(req.list)
       /\ req.has_files
       /\ req.list # <<>>
       /\ \E i \in 1..Len(req.list) : req.list[i].filename # ""
       /\ files' = req.list
  /\ next_uuid' = next_uuid + 1
  /\ session_id' = Uuid(next_uuid + 1)
  /\ session' = Put(session, "session_id", Uuid(next_uuid + 1))
  /\ categorized_files' = <<>>
  /\ stats' = EmptyDict
  /\ processed_count' = 0
  /\ failed_count' = 0
  /\ examined' = 0
  /\ trace' = <<>>
  /\ pc' = "loop"
  /\ flashed' = ""
  /\ response' = [kind |-> "pending", location |-> "", body |-> EmptyDict]
  /\ UNCHANGED <<scoreVars, diskVars>>

PreviewLen == 200

\* ScoredText without the fallback to the file name
ScoredTextNoFallback(text_content, filename) == text_content

\* if not text_content.strip(): text_content = filename
ScoredText(text_content, filename) ==
  IF IsBlank(text_content) THEN filename ELSE text_content

\* The scorers are pure functions of the text. Their results on the texts
\* the files of FileChoices can lead to (the content as the .txt reader and as
\* the document libraries return it, and the sanitised file name) are
\* tabulated once; Scores(t) is the pair of results for any text t.
TabulatedTexts ==
  UNION { { f.content, f.content \o "\n", secure_filename(f.filename) } :
          f \in FileChoices }

RECURSIVE Tabulate(_)
Tabulate(ts) ==
  IF ts = {} THEN EmptyDict
  ELSE LET t == CHOOSE t \in ts : TRUE
       IN (t :> [domain |-> categorize_domain(t),
                 experience |-> categorize_experience(t)])
          @@ Tabulate(ts \ {t})

ScoreTable == Tabulate(TabulatedTexts)

Scores(text_content) ==
  IF text_content \in DOMAIN ScoreTable THEN ScoreTable[text_content]
  ELSE [domain |-> categorize_domain(text_content),
        experience |-> categorize_experience(text_content)]

\* the dict appended to categorized_files
Record(filename, file_path, text_content) ==
  [ original_name |-> filename,
    file_path |-> file_path,
    domain |-> Scores(text_content).domain,
    experience |-> Scores(text_content).experience,
    text_preview |-> IF Len(text_content) > PreviewLen
                     THEN SubSeq(text_content, 1, PreviewLen) \o "..."
                     ELSE text_content ]

\* the except clause of the loop lets the exception escape the handler
PcAfterExceptionAbort == "idle"

\* the except clause of the loop swallows the exception: the loop goes on
PcAfterException == "loop"

\* Incremented that sets the tally of the pair to one instead of adding one
IncrementedReset(st, d, e) == Put(st, <<d, e>>, 1)

\* stats[domain][experience] += 1 on the defaultdict
Incremented(st, d, e) ==
  Put(st, <<d, e>>, IF <<d, e>> \in DOMAIN st THEN st[<<d, e>>] + 1 ELSE 1)

\* one iteration of the loop of upload_files
ProcessFile ==
  /\ pc = "loop"
  /\ examined < Len(files)
  /\ examined' = examined + 1
  /\ LET file == files[examined + 1]
         filename == secure_filename(file.filename)
         file_path == UPLOAD_FOLDER \o "/" \o session_id \o "_" \o filename
         text_content == extract_text_from_file(file_path, file)
         record == Record(filename, file_path, ScoredText(text_content, filename))
     IN IF file.filename # "" /\ allowed_file(file.filename)
        THEN \/ \* file.save raises
                /\ failed_count' = failed_count + 1
                /\ trace' = Append(trace, "save failed")
                /\ pc' = PcAfterException
                /\ UNCHANGED <<categorized_files, stats, processed_count,
                               upload_folder>>
             \/ \* file.save succeeds, a later call of the try block raises
                /\ text_content = Raised
                /\ upload_folder' = Put(upload_folder, file_path,
                                        [file |-> file, born |-> next_uuid])
                /\ failed_count' = failed_count + 1
                /\ trace' = Append(trace, "processing failed")
                /\ pc' = PcAfterException
                /\ UNCHANGED <<categorized_files, stats, processed_count>>
             \/ \* the try block completes
                /\ text_content # Raised
                /\ upload_folder' = Put(upload_folder, file_path,
                                        [file |-> file, born |-> next_uuid])
                /\ categorized_files' = Append(categorized_files, record)
                /\ stats' = Incremented(stats, record.domain, record.experience)
                /\ processed_count' = processed_count + 1
                /\ trace' = Append(trace, "processed")
                /\ UNCHANGED <<failed_count, pc>>
        ELSE /\ failed_count' = failed_count + 1
             /\ trace' = Append(trace, "rejected")
             /\ UNCHANGED <<categorized_files, stats, processed_count,
                            upload_folder, pc>>
  /\ UNCHANGED <<scoreVars, files, session_id, session, processed_folder,
                 next_uuid, received, flashed, response>>

\* the zip_path create_zip_file computes
ZipPath(id) == PROCESSED_FOLDER \o "/" \o "categorized_resumes_" \o id \o ".zip"

\* the entries create_zip_file writes for the first n records: zipf.write
\* reads the file that is at file_path when the archive is built
ZipEntries(records, n, folder) ==
  [ j \in 1..n |->
      [ name |-> records[j].domain \o "/" \o records[j].experience \o "/"
                 \o records[j].original_name,
        file |-> folder[records[j].file_path].file ] ]

\* the session once the results of the upload are stored in it
StoredResults(sess, zip_path) ==
  Put(Put(Put(Put(Put(sess, "zip_path", zip_path),
                  "categorized_files", categorized_files),
              "stats", stats),
          "processed_count", processed_count),
      "failed_count", failed_count)

\* FinishNoValidFiles without the test "if not categorized_files": the
\* handler goes on to build an archive and to store the results
FinishNoValidFilesStores ==
  /\ pc = "loop"
  /\ examined = Len(files)
  /\ categorized_files = <<>>
  /\ processed_folder' =
       Put(processed_folder, ZipPath(session_id),
           [entries |-> <<>>, born |-> next_uuid])
  /\ session' = StoredResults(session, ZipPath(session_id))
  /\ flashed' = ""
  /\ response' = Redirect("/results")
  /\ pc' = "idle"
  /\ ResetLocals
  /\ UNCHANGED <<scoreVars, upload_folder, next_uuid, received>>

\* upload_files after the loop: no valid file
FinishNoValidFiles ==
  /\ pc = "loop"
  /\ examined = Len(files)
  /\ categorized_files = <<>>
  /\ flashed' = "No valid files were processed"
  /\ response' = Redirect("/")
  /\ pc' = "idle"
  /\ ResetLocals
  /\ UNCHANGED <<scoreVars, session, diskVars, next_uuid, received>>

\* upload_files after the loop: create_zip_file raises, before it creates the
\* archive (written = -1) or after it wrote `written` entries
FinishZipError ==
  /\ pc = "loop"
  /\ examined = Len(files)
  /\ categorized_files # <<>>
  /\ \E written \in -1..(Len(categorized_files) - 1) :
       processed_folder' =
         IF written = -1 THEN processed_folder
         ELSE Put(processed_folder, ZipPath(session_id),
                  [entries |-> ZipEntries(categorized_files, written, upload_folder),
                   born |-> next_uuid])
  /\ flashed' = "Error creating download file"
  /\ response' = Redirect("/")
  /\ pc' = "idle"
  /\ ResetLocals
  /\ UNCHANGED <<scoreVars, session, upload_folder, next_uuid, received>>

\* upload_files after the loop: the archive is built, the results are stored
FinishStored ==
  /\ pc = "loop"
  /\ examined = Len(files)
  /\ categorized_files # <<>>
  /\ processed_folder' =
       Put(processed_folder, ZipPath(session_id),
           [entries |-> ZipEntries(categorized_files, Len(categorized_files),
                                   upload_folder),
            born |-> next_uuid])
  /\ session' = StoredResults(session, ZipPath(session_id))
  /\ flashed' = ""
  /\ response' = Redirect("/results")
  /\ pc' = "idle"
  /\ ResetLocals
  /\ UNCHANGED <<scoreVars, upload_folder, next_uuid, received>>

show_results ==
  /\ pc = "idle"
  /\ IF "categorized_files" \notin DOMAIN session
     THEN /\ flashed' = "No results to display"
          /\ response' = Redirect("/")
     ELSE /\ flashed' = ""
          /\ response' =
               [kind |-> "results", location |-> "",
                body |-> [k \in {"categorized_files", "stats", "processed_count",
                                 "failed_count"} |-> session[k]]]
  /\ UNCHANGED <<pc, scoreVars, localVars, session, diskVars, next_uuid, received>>

\* download_zip that hands the archive out once: it forgets zip_path when it
\* serves the file
download_zip_once ==
  /\ pc = "idle"
  /\ IF "zip_path" \notin DOMAIN session
     THEN /\ flashed' = "No download available"
          /\ response' = Redirect("/")
          /\ session' = session
     ELSE IF session["zip_path"] \notin DOMAIN processed_folder
     THEN /\ flashed' = "Download file not found"
          /\ response' = Redirect("/")
          /\ session' = session
     ELSE /\ flashed' = ""
          /\ response' =
               [kind |-> "file", location |-> "",
                body |-> [download_name |-> "categorized_resumes_"
                                            \o session["session_id"] \o ".zip",
                          path |-> session["zip_path"],
                          entries |-> processed_folder[session["zip_path"]].entries]]
          /\ session' = Remove(session, {"zip_path"})
  /\ UNCHANGED <<pc, scoreVars, localVars, diskVars, next_uuid, received>>

\* download_zip without the test os.path.exists: send_file raises on the
\* missing archive and the handler of error 500 answers
download_zip_unchecked ==
  /\ pc = "idle"
  /\ IF "zip_path" \notin DOMAIN session
     THEN /\ flashed' = "No download available"
          /\ response' = Redirect("/")
     ELSE IF session["zip_path"] \notin DOMAIN processed_folder
     THEN /\ flashed' = "An internal error occurred. Please try again."
          /\ response' = Redirect("/")
     ELSE /\ flashed' = ""
          /\ response' =
               [kind |-> "file", location |-> "",
                body |-> [download_name |-> "categorized_resumes_"
                                            \o session["session_id"] \o ".zip",
                          path |-> session["zip_path"],
                          entries |-> processed_folder[session["zip_path"]].entries]]
  /\ UNCHANGED <<pc, scoreVars, localVars, session, diskVars, next_uuid, received>>

download_zip ==
  /\ pc = "idle"
  /\ IF "zip_path" \notin DOMAIN session
     THEN /\ flashed' = "No download available"
          /\ response' = Redirect("/")
     ELSE IF session["zip_path"] \notin DOMAIN processed_folder
     THEN /\ flashed' = "Download file not found"
          /\ response' = Redirect("/")
     ELSE /\ flashed' = ""
          /\ response' =
               [kind |-> "file", location |-> "",
                body |-> [download_name |-> "categorized_resumes_"
                                            \o session["session_id"] \o ".zip",
                          path |-> session["zip_path"],
                          entries |-> processed_folder[session["zip_path"]].entries]]
  /\ UNCHANGED <<pc, scoreVars, localVars, session, diskVars, next_uuid, received>>

\* cleanup_old_files, run when the server starts: the files older than an
\* hour go, that is those of the uploads up to some upload `upto`
cleanup_old_files ==
  /\ pc = "idle"
  /\ \E upto \in 1..next_uuid :
       /\ upload_folder' =
            Remove(upload_folder,
                   { p \in DOMAIN upload_folder : upload_folder[p].born <= upto })
       /\ processed_folder' =
            Remove(processed_folder,
                   { p \in DOMAIN processed_folder : processed_folder[p].born <= upto })
  /\ UNCHANGED <<pc, scoreVars, localVars, session, next_uuid, received, flashed, response>>

Next ==
  \/ UploadNoFiles
  \/ UploadStart
  \/ ProcessFile
  \/ FinishNoValidFiles
  \/ FinishZipError
  \/ FinishStored
  \/ show_results
  \/ download_zip
  \/ cleanup_old_files

Spec == Init /\ [][Next]_vars

-----------------------------------------------------------------------------
(* Claims about the upload pipeline, checked under Spec *)

\* the records of the running upload and those stored in the session
AllRecords ==
  { categorized_files[j] : j \in 1..Len(categorized_files) }
    \cup (IF "categorized_files" \in DOMAIN session
          THEN { session["categorized_files"][j] :
                   j \in 1..Len(session["categorized_files"]) }
          ELSE {})

\* C5: every record of the upload pipeline carries one domain, a key of the
\* keyword table or 'Other', and one experience tier, one of the four labels.
C5_RecordLabels ==
  \A r \in AllRecords :
    /\ r.domain \in DomainSet \cup {"Other"}
    /\ r.experience \in experience_levels

\* C5 witness: the session stores a record of a file of domain 'Other' (scored
\* on its file name, its text being empty) next to one of a keyword domain
C5_Witness ==
  /\ "categorized_files" \in DOMAIN session
  /\ \E r \in AllRecords : r.domain = "Other"
  /\ \E r \in AllRecords : r.domain \in DomainSet

\* the extension of the name is in the allow-list {.pdf, .docx, .doc, .txt}
ExtensionInAllowList(name) ==
  Lower(PathSuffix(name)) \in { ".pdf", ".docx", ".doc", ".txt" }

\* the loop of upload_files is about to examine file f
Examining(f) == pc = "loop" /\ examined < Len(files) /\ f = files[examined + 1]

\* C6: a file whose extension is not in the allow-list adds exactly one to
\* failed_count, is neither saved nor scored nor recorded, and no archive
\* holds an entry for it.
C6_RejectedExtension ==
  /\ [][ \A f \in FileChoices :
           (Examining(f) /\ ~ExtensionInAllowList(f.filename)) =>
             /\ failed_count' = failed_count + 1
             /\ processed_count' = processed_count
             /\ categorized_files' = categorized_files
             /\ stats' = stats
             /\ upload_folder' = upload_folder ]_vars
  /\ [](\A z \in DOMAIN processed_folder :
          \A j \in 1..Len(processed_folder[z].entries) :
            ExtensionInAllowList(processed_folder[z].entries[j].file.filename))

\* C6 witness: the loop has just rejected virus.exe
C6_Witness ==
  /\ pc = "loop"
  /\ examined > 0
  /\ files[examined].filename = "virus.exe"
  /\ failed_count > 0
  /\ trace[examined] = "rejected"

\* what the session holds besides session_id
StoredIn(sess) == [k \in DOMAIN sess \ {"session_id"} |-> sess[k]]

\* a step that ends an upload request in which no file was processed
EndsWithNothingProcessed ==
  \/ UploadNoFiles
  \/ pc = "loop" /\ pc' = "idle" /\ categorized_files = <<>>

\* C7 as claimed: every upload request in which no file is processed ends
\* with the message 'No valid files were processed'.
C7_AlwaysNoValidFilesMessage ==
  [][ EndsWithNothingProcessed =>
        flashed' = "No valid files were processed" /\ response' = Redirect("/") ]_vars

\* C7 as amended: a request that reaches the loop (it carries a named file)
\* and processes no file ends with 'No valid files were processed', one that
\* carries no named file ends with 'No files selected'; both redirect home,
\* build no archive and leave zip_path and the results in the session alone,
\* as does every step of a request but the one that stores the results.
C7_NoValidFiles ==
  /\ [][ (pc = "loop" /\ pc' = "idle" /\ categorized_files = <<>>) =>
           /\ flashed' = "No valid files were processed"
           /\ response' = Redirect("/")
           /\ processed_folder' = processed_folder
           /\ session' = session ]_vars
  /\ [][ UploadNoFiles =>
           /\ flashed' = "No files selected"
           /\ response' = Redirect("/")
           /\ processed_folder' = processed_folder
           /\ session' = session ]_vars
  /\ [][ ~(pc = "loop" /\ pc' = "idle" /\ categorized_files # <<>>) =>
           StoredIn(session') = StoredIn(session) ]_vars

\* C7 witness: an upload that examined files and processed none has ended
C7_Witness ==
  /\ pc = "idle"
  /\ flashed = "No valid files were processed"
  /\ response = Redirect("/")
  /\ next_uuid > 0

\* the indices of the examined files that were processed, in order
ProcessedIndices ==
  SelectSeq([i \in 1..Len(trace) |-> i], LAMBDA i : trace[i] = "processed")

\* the archive entry create_zip_file owes to record r
EntryName(r) == r.domain \o "/" \o r.experience \o "/" \o r.original_name

\* a step that builds the archive of the running upload holds one entry per
\* record, in order, under the record's own labels and name
ArchiveHoldsEveryRecord ==
  (pc = "loop" /\ response'.kind = "redirect" /\ response'.location = "/results") =>
    /\ ZipPath(session_id) \in DOMAIN processed_folder'
    /\ LET entries == processed_folder'[ZipPath(session_id)].entries
       IN /\ Len(entries) = Len(categorized_files)
          /\ \A j \in 1..Len(entries) : entries[j].name = EntryName(categorized_files[j])
    /\ session'["categorized_files"] = categorized_files

\* C8: a failure on one file (rejected extension, exception while saving or
\* processing) does not abort the batch: the loop goes on to the next file,
\* the records are those of the files that succeeded, in order, and the
\* archive holds every one of them.
C8_BatchSurvivesFailure ==
  /\ [][ (pc = "loop" /\ examined < Len(files)) =>
           pc' = "loop" /\ examined' = examined + 1 /\ files' = files ]_vars
  /\ [](pc = "loop" =>
          /\ Len(trace) = examined
          /\ Len(categorized_files) = Len(ProcessedIndices)
          /\ \A j \in 1..Len(ProcessedIndices) :
               categorized_files[j].original_name
                 = secure_filename(files[ProcessedIndices[j]].filename)
          /\ \A i \in 1..examined :
               (ExtensionInAllowList(files[i].filename) /\ files[i].filename # "")
                 <=> trace[i] # "rejected")
  /\ [][ArchiveHoldsEveryRecord]_vars

\* C8 witness: a batch of two whose first file failed and whose second file
\* was processed and recorded
C8_Witness ==
  /\ pc = "loop"
  /\ examined = 2
  /\ trace[1] \in {"rejected", "save failed"}
  /\ trace[2] = "processed"
  /\ Len(categorized_files) = 1

\* the text of file f cannot be extracted: the document is corrupt or
\* unreadable, or the library that parses its type is missing
ExtractionFails(f) ==
  \/ ~f.readable
  \/ Lower(PathSuffix(f.filename)) = ".pdf" /\ ~PDF_AVAILABLE
  \/ Lower(PathSuffix(f.filename)) \in {".docx", ".doc"} /\ ~DOCX_AVAILABLE

\* C9 as claimed: an allowed file whose text extraction fails is counted in
\* failed_count and is not recorded.
C9_ExtractionFailureCountsAsFailed ==
  [][ \A f \in FileChoices :
        (Examining(f) /\ ExtensionInAllowList(f.filename) /\ ExtractionFails(f)) =>
          failed_count' = failed_count + 1 /\ categorized_files' = categorized_files ]_vars

\* C9 as amended: an allowed file whose text extraction fails, once saved, is
\* not counted as failed: extraction yields empty text, the file is scored on
\* its sanitised name, counted in processed_count, recorded, and so included
\* in the archive.
C9_ExtractionFailureFallsBack ==
  /\ [][ \A f \in FileChoices :
           (/\ Examining(f)
            /\ ExtensionInAllowList(f.filename)
            /\ ExtractionFails(f)
            /\ trace' # Append(trace, "save failed")) =>
             /\ failed_count' = failed_count
             /\ processed_count' = processed_count + 1
             /\ Len(categorized_files') = Len(categorized_files) + 1
             /\ categorized_files'[Len(categorized_files')].text_preview
                  = secure_filename(f.filename) ]_vars
  /\ [][ (pc = "loop" /\ response'.kind = "redirect"
          /\ response'.location = "/results") =>
           Len(processed_folder'[ZipPath(session_id)].entries)
             = Len(categorized_files) ]_vars

\* C9 witness: the loop has processed a saved file whose extraction failed
C9_Witness ==
  /\ pc = "loop"
  /\ examined > 0
  /\ ExtensionInAllowList(files[examined].filename)
  /\ ExtractionFails(files[examined])
  /\ trace[examined] = "processed"
  /\ processed_count > 0

\* the path under which the running upload saves file f
SavedPath(f) ==
  UPLOAD_FOLDER \o "/" \o session_id \o "_" \o secure_filename(f.filename)

\* C10: the record of a processed file is scored on the extracted text when
\* that text is not blank, and on the sanitised file name when it is empty or
\* whitespace only; in both cases the file is recorded as processed.
C10_FilenameFallback ==
  (pc = "loop" /\ examined > 0 /\ trace[examined] = "processed") =>
    LET f == files[examined]
        extracted == extract_text_from_file(SavedPath(f), f)
        scored == IF \A i \in 1..Len(extracted) : Ch(extracted, i) \in Whitespace
                  THEN secure_filename(f.filename) ELSE extracted
        r == categorized_files[Len(categorized_files)]
    IN /\ categorized_files # <<>>
       /\ r.text_preview = scored
       /\ r.domain = Scores(scored).domain
       /\ r.experience = Scores(scored).experience
       /\ processed_count = Len(categorized_files)

\* C10 witness: a file whose extracted text is blank was recorded with the
\* scores of its sanitised name, which differs from the name the client sent
C10_Witness ==
  /\ pc = "loop"
  /\ examined > 0
  /\ trace[examined] = "processed"
  /\ files[examined].filename = "sql 3 yrs.pdf"
  /\ categorized_files[Len(categorized_files)].text_preview = "sql_3_yrs.pdf"

\* the step that ends a successful upload: the archive is built and the
\* results are stored
UploadSucceeds ==
  pc = "loop" /\ response'.kind = "redirect" /\ response'.location = "/results"

\* C11: after a successful upload the archive holds exactly one entry per
\* processed file of the batch, in order, at <domain>/<experience>/<filename>
\* of that file's own record, and the entry holds that file; this for every
\* batch, also those in which two files have the same name.
C11_ArchiveEntryPerFile ==
  [][ UploadSucceeds =>
        LET entries == processed_folder'[ZipPath(session_id)].entries
        IN /\ Len(entries) = Len(ProcessedIndices)
           /\ \A j \in 1..Len(entries) :
                /\ entries[j].name = EntryName(categorized_files[j])
                /\ entries[j].file = files[ProcessedIndices[j]] ]_vars

\* the step that ends an upload whose archive creation failed
ArchiveCreationFails ==
  pc = "loop" /\ pc' = "idle" /\ flashed' = "Error creating download file"

\* C12: an upload whose archive creation fails ends with an error message and
\* a redirect home and stores no results, and a /download that follows it
\* serves no archive, partial or otherwise.
C12_FailedArchiveServesNothing ==
  /\ [][ ArchiveCreationFails =>
           /\ response' = Redirect("/")
           /\ StoredIn(session') = StoredIn(session) ]_vars
  /\ [][ (pc = "idle" /\ flashed = "Error creating download file") =>
           response'.kind # "file" ]_vars

\* /download would serve the archive at path z: the session names it and the
\* file is on disk
Downloadable(z) ==
  /\ "zip_path" \in DOMAIN session
  /\ session["zip_path"] = z
  /\ z \in DOMAIN processed_folder

\* C13 as claimed: once /download has served the archive of the session, the
\* archive is no longer available to a later /download.
C13_ServedOnce ==
  (pc = "idle" /\ response.kind = "file") => ~Downloadable(response.body.path)

\* C13 as amended: /download changes neither the session nor the files on
\* disk, so the archive is not consumed by a download: after /download has
\* served it, the session still names it, and a later /download serves it
\* again as long as the file is on disk.
C13_ServedAgain ==
  /\ [][ download_zip =>
           /\ session' = session
           /\ processed_folder' = processed_folder
           /\ upload_folder' = upload_folder ]_vars
  /\ [](response.kind = "file" =>
          /\ "zip_path" \in DOMAIN session
          /\ session["zip_path"] = response.body.path)
  /\ [][ (response.kind = "file" /\ download_zip
          /\ response.body.path \in DOMAIN processed_folder) =>
           response' = response ]_vars

\* C13 witness: /download has served the archive of the session, and the
\* archive is still what the session names and still on disk
C13_Witness ==
  /\ pc = "idle"
  /\ response.kind = "file"
  /\ "zip_path" \in DOMAIN session
  /\ response.body.path = session["zip_path"]
  /\ session["zip_path"] \in DOMAIN processed_folder
  /\ response.body.entries # <<>>

\* the session holds no results and names no archive
NoSuccessYet == DOMAIN session \subseteq {"session_id"}

\* C14: as long as no upload of the session has succeeded, the session holds
\* no results and names no archive, no request renders results or serves a
\* file, and /results and /download each set a message and redirect home;
\* /download also sets a message and redirects home when the archive the
\* session names is no longer on disk.
C14_NothingToShowRedirectsHome ==
  /\ [][ ~UploadSucceeds => (NoSuccessYet => NoSuccessYet') ]_vars
  /\ [][ NoSuccessYet => response'.kind \notin {"results", "file"} ]_vars
  /\ [][ (NoSuccessYet /\ show_results) =>
           flashed' = "No results to display" /\ response' = Redirect("/") ]_vars
  /\ [][ (NoSuccessYet /\ download_zip) =>
           flashed' = "No download available" /\ response' = Redirect("/") ]_vars
  /\ [][ (/\ download_zip
          /\ "zip_path" \in DOMAIN session
          /\ session["zip_path"] \notin DOMAIN processed_folder) =>
           flashed' = "Download file not found" /\ response' = Redirect("/") ]_vars

\* C14 witness: uploads were made and none succeeded, and /download has
\* answered with its message and a redirect home
C14_Witness ==
  /\ pc = "idle"
  /\ next_uuid > 0
  /\ NoSuccessYet
  /\ flashed = "No download available"
  /\ response = Redirect("/")

\* the path of record r is one the upload with session id `id` saved
SavedBy(r, id) == StartsAt(r.file_path, 1, UPLOAD_FOLDER \o "/" \o id \o "_")

\* C15: between requests, the zip_path, the categorized_files, the stats and
\* the counts of the session all come from the upload that set the session's
\* session_id.
C15_SessionFromOneUpload ==
  (pc = "idle" /\ "session_id" \in DOMAIN session) =>
    /\ "zip_path" \in DOMAIN session =>
         session["zip_path"] = ZipPath(session["session_id"])
    /\ "categorized_files" \in DOMAIN session =>
         /\ \A j \in 1..Len(session["categorized_files"]) :
              SavedBy(session["categorized_files"][j], session["session_id"])
         /\ session["processed_count"] = Len(session["categorized_files"])

\* the number of records of recs that carry the pair (d, e)
RecordsWith(recs, d, e) ==
  Cardinality({ j \in 1..Len(recs) : recs[j].domain = d /\ recs[j].experience = e })

\* the counter p and the tally st agree with the records recs
CountersAgree(recs, st, p) ==
  /\ p = Len(recs)
  /\ \A k \in DOMAIN st : st[k] > 0
  /\ \A d \in DomainSet \cup {"Other"}, e \in experience_levels :
       (IF <<d, e>> \in DOMAIN st THEN st[<<d, e>>] ELSE 0) = RecordsWith(recs, d, e)
  /\ \A k \in DOMAIN st :
       k \in (DomainSet \cup {"Other"}) \X experience_levels

\* C16: at every iteration of the loop of an upload and at its end,
\* processed_count + failed_count is the number of files examined,
\* processed_count is the number of records, and stats[domain][experience] is
\* the number of records that carry the pair, zero for a pair not in stats;
\* the same holds of the results the upload stores in the session.
C16_LoopCounters ==
  /\ pc = "loop" =>
       /\ processed_count + failed_count = examined
       /\ examined <= Len(files)
       /\ CountersAgree(categorized_files, stats, processed_count)
  /\ "categorized_files" \in DOMAIN session =>
       /\ CountersAgree(session["categorized_files"], session["stats"],
                        session["processed_count"])
       /\ session["failed_count"] >= 0

\* C16 witness: the loop has examined a batch in which two files got the same
\* pair of labels
C16_Witness ==
  /\ pc = "loop"
  /\ examined = Len(files)
  /\ \E k \in DOMAIN stats : stats[k] = 2
  /\ processed_count = 2

=============================================================================
